---------------------------- MODULE Spec2Model ----------------------------
(***************************************************************************)
(* VoxScribe-AI: the large-audio transcription pipeline                    *)
(* (services/geminiService: encodeWAV, transcribeAudio,                    *)
(* transcribeLargeAudio, translateLongText), the PCM decoding used for     *)
(* playback, the subscription and login services, and the recording and    *)
(* processing handlers of App.tsx.                                         *)
(*                                                                         *)
(* Seven specifications:                                                   *)
(*   Spec           the chunk loop of transcribeLargeAudio, one run per    *)
(*                  behaviour, the decoded buffer and the service's        *)
(*                  answers being the inputs;                              *)
(*   SpecWav        encodeWAV applied to bounded sample arrays, followed   *)
(*                  by the int16 -> float decoding of handlePlayAudio;     *)
(*   SpecServices   calls of subscriptionService and authService.login on  *)
(*                  one localStorage;                                      *)
(*   SpecApp        the handlers of App.tsx: recording, upload,            *)
(*                  handleProcess and its awaits, upgrade, reset;          *)
(*   SpecTranslate  translateLongText on texts given by their paragraphs;  *)
(*   SpecDownload   handleDownloadAudio: the speech service's PCM          *)
(*                  converted to floats and written as a WAV file;         *)
(*   SpecFile       transcribeLargeAudio of services/geminiService.ts,     *)
(*                  which uploads files of 20 MB or more to the File API.  *)
(*                                                                         *)
(* Numbers.  A Float32 sample is the rational n / SampleDen, held as its   *)
(* numerator n; SampleDen is a power of two, so every such sample is an    *)
(* exact Float32 and its products with 0x7FFF and 0x8000 are exact         *)
(* doubles.  A time in seconds is the double nearest to num / SAMPLE_RATE, *)
(* held as num (see Seconds, Duration, FloorTimesRate).                    *)
(***************************************************************************)
EXTENDS Integers, Sequences, FiniteSets, TLC

VARIABLES
    \* ---- SpecWav: encodeWAV and the playback decoder
    wpc,            \* "idle" | "ready" | "encoded" | "decoded"
    samples,        \* the Float32Array handed to encodeWAV (numerators)
    sampleRate,     \* the sampleRate argument
    wav,            \* the bytes of the produced Blob
    decoded,        \* channelData after decoding the stored int16 values
    \* ---- Spec: transcribeLargeAudio
    pc,             \* "idle" | "decoding" | "loop" | "awaiting" | "resolved" | "rejected"
    file,           \* the Blob: the number of samples it decodes to, or Corrupt
    apiKey,         \* whether process.env.API_KEY is set
    ctxOpen,        \* the AudioContext exists and has not been closed
    pcmLength,      \* audioBuffer.length = pcmData.length
    startTime,      \* the loop variable, in whole seconds
    fullTranscript, \* the accumulator
    inFlight,       \* the transcription requests sent and not yet answered
    requests,       \* history: the sample range of every request sent, in order
    responses,      \* history: the chunk transcripts obtained, in order
    result,         \* what the promise settled with
    \* ---- SpecServices: subscriptionService and authService
    storage,        \* localStorage: the item under each of the two keys
    call,           \* the last service call, with the storage it found
    returned,       \* what the last service call returned or threw
    ncalls,         \* number of service calls made so far
    \* ---- SpecApp: the App component (React state and what it started)
    subscription,   \* the subscription state of the component
    status,         \* AppStatus
    error,          \* the error message shown, or NoError
    audioData,      \* the AudioMetadata ready to be processed, or NoAudio
    appResult,      \* the TranscriptionResult shown, or NoResult
    history,        \* the types of the history records added, in order
    showPricing,    \* the pricing modal is open
    targetLang,     \* the selected target language code
    recorder,       \* MediaRecorder: "inactive" | "recording" | "stopping"
    recordingDuration, \* the seconds counted by the recording timer
    onstopDuration, \* recordingDuration as the onstop closure sees it
    pendingUpload,  \* the duration getAudioDuration will resolve with, or NoUpload
    runs,           \* the handleProcess calls that are awaiting a service
    nruns,          \* number of handleProcess calls that passed the limit check
    \* ---- SpecTranslate: translateLongText
    lpc,            \* "idle" | "splitting" | "sending" | "awaiting" | "resolved" | "rejected"
    longText,       \* the text argument
    paragraphs,     \* the paragraphs not yet visited by the first loop
    currentChunk,   \* the chunk under construction
    chunks,         \* the chunks pushed so far
    sent,           \* history: the texts passed to translateText, in order
    nextChunk,      \* index of the chunk the second loop sends next
    \* ---- SpecDownload: handleDownloadAudio
    dpc,            \* "idle" | "ready" | "converted" | "written"
    dataInt16,      \* the Int16Array over the speech service's bytes
    float32Samples, \* the converted samples (numerators over SampleDen)
    download,       \* the bytes of the Blob offered for download
    \* ---- SpecFile: transcribeLargeAudio through the File API
    fpc,            \* "idle" | "inline" | "uploading" | "sleeping" | "getting" | "generating" | "resolved" | "rejected"
    fileSize,       \* file.size in bytes
    clientKey,      \* whether process.env.API_KEY is set
    fileState,      \* the local variable fileState, "none" before the upload returns
    reported,       \* history: the states the upload and the polls returned
    generated,      \* history: the generateContent requests issued
    fresult         \* what the promise settled with

wvars == <<wpc, samples, sampleRate, wav, decoded>>
tvars == <<pc, file, apiKey, ctxOpen, pcmLength, startTime, fullTranscript,
           inFlight, requests, responses, result>>
svars == <<storage, call, returned, ncalls>>
avars == <<subscription, status, error, audioData, appResult, history,
           showPricing, targetLang, recorder, recordingDuration,
           onstopDuration, pendingUpload, runs, nruns>>
lvars == <<lpc, longText, paragraphs, currentChunk, chunks, sent, nextChunk>>
dvars == <<dpc, dataInt16, float32Samples, download>>
fvars == <<fpc, fileSize, clientKey, fileState, reported, generated, fresult>>
vars == <<wvars, tvars, svars, avars, lvars, dvars, fvars>>

---------------------------------------------------------------------------
(* Bounds of the model *)

\* longest sample array handed to encodeWAV in SpecWav
MaxSamples == 2
\* sample numerators are taken within this distance of each anchor value
MaxOffset == 1
\* decoded buffers are whole seconds plus at most this many samples
MaxExtraSamples == 2
\* longest raw text the transcription service answers with
MaxTextLen == 2
\* only the first MaxSpoken chunks of a recording carry speech
MaxSpoken == 2
\* service calls made in one behaviour of SpecServices
MaxCalls == 3
\* handleProcess calls that pass the limit check in one behaviour of SpecApp
\* (two, so that a second pipeline can be started beside the first)
MaxRuns == 2
\* seconds the recording timer counts in one recording
MaxTicks == 1
\* paragraphs of a text handed to translateLongText
MaxParagraphs == 3
\* polls of the file service that answer PROCESSING in SpecFile
MaxPolls == 3

---------------------------------------------------------------------------
(* Program constants *)

SAMPLE_RATE == 16000
CHUNK_DURATION_SEC == 300
\* the sample rate of synthesized speech (App.tsx)
TTS_SAMPLE_RATE == 24000
\* 0x7FFF and 0x8000, the two quantization factors
INT16_MAX == 32767
INT16_SCALE == 32768
\* new ArrayBuffer(44 + ...): the header length
WAV_HEADER_BYTES == 44

\* denominator of the sample representation: s = n / SampleDen
SampleDen == 2 * INT16_SCALE

Abs(x) == IF x < 0 THEN -x ELSE x

---------------------------------------------------------------------------
(* Numbers and JSON in the services                                        *)
(*                                                                         *)
(* Usage is counted in minutes as a double.  The model holds minutesUsed   *)
(* and every duration as a whole number of seconds, that is as the         *)
(* numerator of a fraction over SECONDS_PER_MINUTE; maxMinutes is held in  *)
(* minutes as in the source.  The one non-finite double that reaches the   *)
(* services is +Infinity (the duration a media element reports for a       *)
(* stream of unknown length).                                              *)

\* seconds / 60
SECONDS_PER_MINUTE == 60
\* Number.POSITIVE_INFINITY
Infinity == 2147483647
\* the JSON value null where a number is expected
NullNumber == -1

\* ToNumber(null) = 0
ToNumber(x) == IF x = NullNumber THEN 0 ELSE x

\* a + b on doubles
Plus(a, b) ==
    IF ToNumber(a) = Infinity \/ ToNumber(b) = Infinity THEN Infinity
    ELSE ToNumber(a) + ToNumber(b)

\* JSON.stringify of a number: a non-finite number is written as null
JsonNumber(x) == IF x = Infinity THEN NullNumber ELSE x

\* JSON.stringify(value): the JSON text, held as the value it denotes
JSON_stringify(value) ==
    IF "minutesUsed" \in DOMAIN value
    THEN [value EXCEPT !.minutesUsed = JsonNumber(@)]
    ELSE value

\* JSON.parse(text)
JSON_parse(text) == text

\* localStorage.getItem on a key that was never set
NoItem == [item |-> "null"]

\* localStorage.setItem(key, text)
setItem(store, key, text) == [store EXCEPT ![key] = text]

\* localStorage.getItem(key)
getItem(store, key) == store[key]

STORAGE_KEY == "voxscribe_subscription"
USER_STORAGE_KEY == "voxscribe_user"

\* a localStorage holding nothing
EmptyStorage == [k \in {STORAGE_KEY, USER_STORAGE_KEY} |-> NoItem]

---------------------------------------------------------------------------
(* subscriptionService *)

FREE_MAX_MINUTES == 30
BASIC_MAX_MINUTES == 120
ADVANCED_MAX_MINUTES == 1000
DEVELOPER_MAX_MINUTES == 999999999
\* checkLimits: above this many minutes the plan counts as unlimited
UNLIMITED_ABOVE == 1000000
\* the free limit of the earlier release, which getSubscription migrates
LEGACY_MAX_MINUTES == 10

PlanTiers == {"free", "basic", "advanced"}

DEFAULT_STATE ==
    [ tier |-> "free", minutesUsed |-> 0, maxMinutes |-> FREE_MAX_MINUTES,
      canTranslate |-> FALSE ]

\* a function's effect on localStorage together with the value it returns
Effect(store, value) == [storage |-> store, value |-> value]

getSubscription(store) ==
    LET stored == getItem(store, STORAGE_KEY) IN
    IF stored # NoItem
    THEN LET parsed == JSON_parse(stored) IN
         IF parsed.tier = "free" /\ parsed.maxMinutes < FREE_MAX_MINUTES
         THEN LET upgraded == [parsed EXCEPT !.maxMinutes = FREE_MAX_MINUTES]
              IN  Effect(setItem(store, STORAGE_KEY, JSON_stringify(upgraded)),
                         upgraded)
         ELSE Effect(store, parsed)
    ELSE Effect(setItem(store, STORAGE_KEY, JSON_stringify(DEFAULT_STATE)),
                DEFAULT_STATE)

addUsageMinutes(store, seconds) ==
    LET current  == getSubscription(store)
        newState == [current.value EXCEPT !.minutesUsed = Plus(@, seconds)]
    IN  Effect(setItem(current.storage, STORAGE_KEY, JSON_stringify(newState)),
               newState)

upgradePlan(store, tier) ==
    LET current  == getSubscription(store)
        newState ==
            IF tier = "basic"
            THEN [current.value EXCEPT !.tier = "basic",
                                       !.maxMinutes = BASIC_MAX_MINUTES,
                                       !.canTranslate = FALSE]
            ELSE IF tier = "advanced"
            THEN [current.value EXCEPT !.tier = "advanced",
                                       !.maxMinutes = ADVANCED_MAX_MINUTES,
                                       !.canTranslate = TRUE]
            ELSE DEFAULT_STATE
    IN  Effect(setItem(current.storage, STORAGE_KEY, JSON_stringify(newState)),
               newState)

activateDeveloperPlan(store) ==
    LET devState == [ tier |-> "advanced", minutesUsed |-> 0,
                      maxMinutes |-> DEVELOPER_MAX_MINUTES,
                      canTranslate |-> TRUE ]
    IN  Effect(setItem(store, STORAGE_KEY, JSON_stringify(devState)), devState)

\* the comparison without the requested minutes
WithinLimitBeforeRequest(current, requestedSeconds) ==
    ToNumber(current.minutesUsed) <= SECONDS_PER_MINUTE * current.maxMinutes

\* current.minutesUsed + requestedSeconds / 60 <= current.maxMinutes
WithinLimit(current, requestedSeconds) ==
    Plus(current.minutesUsed, requestedSeconds)
        <= SECONDS_PER_MINUTE * current.maxMinutes

checkLimits(current, requestedSeconds) ==
    IF current.maxMinutes > UNLIMITED_ABOVE THEN TRUE
    ELSE WithinLimit(current, requestedSeconds)

---------------------------------------------------------------------------
(* authService *)

DEV_EMAIL == "feti@voxscribe.pt"
DEV_PASSWORD == "V123#"

Emails == {"", "ana@mail.pt", "ana", DEV_EMAIL}
Passwords == {"", "pw", DEV_PASSWORD}

\* email.split('@')[0]
LocalPart(email) ==
    CASE email = "ana@mail.pt" -> "ana"
      [] email = DEV_EMAIL -> "feti"
      [] OTHER -> email

\* the outcome of a call: the value returned or the Error thrown
NoOutcome == [kind |-> "none"]
Returned(value) == [kind |-> "returned", value |-> value]
Thrown(message) == [kind |-> "thrown", message |-> message]

\* a check that also wants an '@' in the email
MissingOrMalformed(email, password) ==
    email = "" \/ password = "" \/ LocalPart(email) = email

\* !email || !password

MissingCredentials(email, password) == email = "" \/ password = ""

\* login(email, password): the storage it leaves and how the promise settles;
\* ids are held without their Date.now() suffix
login(store, email, password) ==
    IF MissingCredentials(email, password)
    THEN Effect(store, Thrown("Email and password are required"))
    ELSE IF email = DEV_EMAIL /\ password = DEV_PASSWORD
    THEN LET devUser == [ id |-> "dev-admin-", email |-> email,
                          name |-> "Developer Admin", isLoggedIn |-> TRUE ]
         IN  Effect(activateDeveloperPlan(
                        setItem(store, USER_STORAGE_KEY,
                                JSON_stringify(devUser))).storage,
                    Returned(devUser))
    ELSE LET user == [ id |-> "user-", email |-> email,
                       name |-> LocalPart(email), isLoggedIn |-> TRUE ]
         IN  Effect(setItem(store, USER_STORAGE_KEY, JSON_stringify(user)),
                    Returned(user))

\* the subscription items an installation may hold when the page loads:
\* none, or the free plan as the earlier release stored it
StoredSubscriptions ==
    {NoItem} \cup
    { [DEFAULT_STATE EXCEPT !.maxMinutes = LEGACY_MAX_MINUTES,
                            !.minutesUsed = used] :
        used \in {LEGACY_MAX_MINUTES * SECONDS_PER_MINUTE} }

InitialStorages ==
    { setItem(EmptyStorage, STORAGE_KEY, sub) : sub \in StoredSubscriptions }

\* no service call has been made
NoCall == [op |-> "none"]

SIdle ==
    /\ storage = EmptyStorage /\ call = NoCall /\ returned = NoOutcome
    /\ ncalls = 0

---------------------------------------------------------------------------
(* App: values of the component state *)

\* error === null
NoError == "null"
\* audioData === null
NoAudio == [audio |-> "null"]
\* result === null
NoResult == [result |-> "null"]
\* no file is being measured by getAudioDuration
NoUpload == -1

\* the component before it is mounted
AIdle ==
    /\ subscription = DEFAULT_STATE /\ status = "IDLE" /\ error = NoError
    /\ audioData = NoAudio /\ appResult = NoResult /\ history = <<>>
    /\ showPricing = FALSE /\ targetLang = "en" /\ recorder = "inactive"
    /\ recordingDuration = 0 /\ onstopDuration = 0
    /\ pendingUpload = NoUpload /\ runs = <<>> /\ nruns = 0

---------------------------------------------------------------------------
(* Strings of translateLongText                                            *)
(*                                                                         *)
(* A string is held as the sequence of its paragraphs, that is of the      *)
(* pieces str.split("\n\n") returns, each piece being the position it had  *)
(* in the input text and its length in characters; the empty string is the *)
(* empty sequence.  Joining with "\n\n" is concatenation of sequences.     *)

\* "\n\n".length
SEPARATOR_LENGTH == 2

\* the summed lengths of the paragraphs of str
RECURSIVE ParagraphChars(_)
ParagraphChars(str) ==
    IF str = <<>> THEN 0 ELSE Head(str).length + ParagraphChars(Tail(str))

\* str.length
StrLength(str) ==
    IF str = <<>> THEN 0
    ELSE ParagraphChars(str) + SEPARATOR_LENGTH * (Len(str) - 1)

\* the string whose only paragraph is para
ParagraphString(para) == IF para.length = 0 THEN <<>> ELSE <<para>>

\* str.split("\n\n"): the empty string has one empty piece
split(str) == IF str = <<>> THEN <<[index |-> 0, length |-> 0]>> ELSE str

\* pieces.join("\n\n") for a sequence of paragraphs
JoinParagraphs(pieces) ==
    IF Len(pieces) = 1 /\ pieces[1].length = 0 THEN <<>> ELSE pieces

\* strs.join("\n\n") for a sequence of strings
RECURSIVE AllPieces(_)
AllPieces(strs) ==
    IF strs = <<>> THEN <<>> ELSE split(Head(strs)) \o AllPieces(Tail(strs))

Join(strs) == IF strs = <<>> THEN <<>> ELSE JoinParagraphs(AllPieces(strs))

\* translateLongText is not running
LIdle ==
    /\ lpc = "idle" /\ longText = <<>> /\ paragraphs = <<>> /\ currentChunk = <<>>
    /\ chunks = <<>> /\ sent = <<>> /\ nextChunk = 1

\* handleDownloadAudio has not been called
DIdle ==
    /\ dpc = "idle" /\ dataInt16 = <<>> /\ float32Samples = <<>>
    /\ download = <<>>

\* the File-API transcribeLargeAudio has not been called
FIdle ==
    /\ fpc = "idle" /\ fileSize = 0 /\ clientKey = TRUE /\ fileState = "none"
    /\ reported = <<>> /\ generated = <<>> /\ fresult = [kind |-> "pending"]

---------------------------------------------------------------------------
(* DataView: byte-level writes and reads *)

\* string.charCodeAt(i) for the characters of the four tags
charCodeAt(c) ==
    CASE c = "R" -> 82  [] c = "I" -> 73  [] c = "F" -> 70
      [] c = "W" -> 87  [] c = "A" -> 65  [] c = "V" -> 86  [] c = "E" -> 69
      [] c = "f" -> 102 [] c = "m" -> 109 [] c = "t" -> 116 [] c = " " -> 32
      [] c = "d" -> 100 [] c = "a" -> 97

\* view with bytes written at 0-based offset
SetBytes(view, offset, bytes) ==
    [i \in 1..Len(view) |->
        IF i > offset /\ i <= offset + Len(bytes) THEN bytes[i - offset]
        ELSE view[i]]

writeString(view, offset, string) ==
    SetBytes(view, offset, [i \in 1..Len(string) |-> charCodeAt(string[i])])

\* view.setUint32(offset, x, true): the low four bytes, little-endian
setUint32(view, offset, x) ==
    SetBytes(view, offset,
        << x % 256, (x \div 256) % 256, (x \div 65536) % 256,
           (x \div 16777216) % 256 >>)

\* view.setUint16(offset, x, true)
setUint16(view, offset, x) ==
    SetBytes(view, offset, << x % 256, (x \div 256) % 256 >>)

\* rounding down instead of toward zero
TruncateFloor(num, den) == num \div den

\* truncate(x) of ToInt16: the integer part of num / den, toward zero
\* (den > 0; \div rounds down)
Truncate(num, den) ==
    IF num >= 0 \/ num % den = 0 THEN num \div den ELSE (num \div den) + 1

\* ToInt16 of an integer: modulo 2^16, into [-32768, 32767]
ToInt16(int) ==
    LET m == int % 65536 IN IF m >= 32768 THEN m - 65536 ELSE m

\* the two bytes of an int16, big-endian (littleEndian argument left out)
Int16BytesBE(v) ==
    << ((v % 65536) \div 256) % 256, (v % 65536) % 256 >>

\* the two bytes of an int16 in little-endian order
Int16BytesLE(v) ==
    << (v % 65536) % 256, ((v % 65536) \div 256) % 256 >>

\* view.setInt16(offset, num / den, true)
setInt16(view, offset, num, den) ==
    SetBytes(view, offset, Int16BytesLE(ToInt16(Truncate(num, den))))

getUint16(view, offset) == view[offset + 1] + 256 * view[offset + 2]

getUint32(view, offset) ==
    view[offset + 1] + 256 * view[offset + 2] + 65536 * view[offset + 3]
        + 16777216 * view[offset + 4]

\* new Int16Array(bytes.buffer)[i], little-endian platform
getInt16(view, offset) == ToInt16(getUint16(view, offset))

---------------------------------------------------------------------------
(* encodeWAV *)

\* Math.min(1, x) first and Math.max(-1, .) second, exchanged
ClampSwapped(n) ==
    LET hi == IF n > SampleDen THEN n ELSE SampleDen
    IN  IF hi < -SampleDen THEN hi ELSE -SampleDen

\* Math.max(-1, Math.min(1, samples[i])), on numerators
Clamp(n) ==
    LET lo == IF n < SampleDen THEN n ELSE SampleDen
    IN  IF lo > -SampleDen THEN lo ELSE -SampleDen

\* s < 0 ? s * 0x8000 : s * 0x7FFF, as the numerator over SampleDen
Scaled(s) == IF s < 0 THEN s * INT16_SCALE ELSE s * INT16_MAX

\* the loop over the samples, from index i (0-based) at byte offset
RECURSIVE WriteSamples(_, _, _, _)
WriteSamples(view, smp, i, offset) ==
    IF i < Len(smp)
    THEN LET s == Clamp(smp[i + 1])
         IN  WriteSamples(setInt16(view, offset, Scaled(s), SampleDen),
                          smp, i + 1, offset + 2)
    ELSE view

\* the file length field written without the factor 2
RiffLengthNoFactor(n) == 36 + n

\* 36 + samples.length * 2
RiffLength(n) == 36 + n * 2

\* the byte rate written as the sample rate, block align forgotten
ByteRateNoBlockAlign(rate) == rate

\* sampleRate * 2
ByteRate(rate) == rate * 2

\* the 44 header bytes written into a fresh buffer for n samples
WriteHeader(buffer, n, rate) ==
    LET v1  == writeString(buffer, 0, <<"R", "I", "F", "F">>)
        v2  == setUint32(v1, 4, RiffLength(n))
        v3  == writeString(v2, 8, <<"W", "A", "V", "E">>)
        v4  == writeString(v3, 12, <<"f", "m", "t", " ">>)
        v5  == setUint32(v4, 16, 16)
        v6  == setUint16(v5, 20, 1)
        v7  == setUint16(v6, 22, 1)
        v8  == setUint32(v7, 24, rate)
        v9  == setUint32(v8, 28, ByteRate(rate))
        v10 == setUint16(v9, 32, 2)
        v11 == setUint16(v10, 34, 16)
        v12 == writeString(v11, 36, <<"d", "a", "t", "a">>)
    IN  setUint32(v12, 40, n * 2)

\* the bytes of the Blob encodeWAV returns
encodeWAV(smp, rate) ==
    LET buffer == [i \in 1..(WAV_HEADER_BYTES + Len(smp) * 2) |-> 0]
    IN  WriteSamples(WriteHeader(buffer, Len(smp), rate), smp, 0, WAV_HEADER_BYTES)

\* dataInt16[i] / 32768.0, as a numerator over SampleDen
DecodeInt16(v) == v * (SampleDen \div INT16_SCALE)

\* channelData of handlePlayAudio for PCM bytes
DecodePCM(bytes) ==
    [i \in 1..(Len(bytes) \div 2) |-> DecodeInt16(getInt16(bytes, 2 * (i - 1)))]

---------------------------------------------------------------------------
(* SpecWav: inputs and steps *)

\* silence, half scale and full scale of both signs, and twice full scale
SampleAnchors ==
    { 0, SampleDen \div 2, -(SampleDen \div 2), SampleDen, -SampleDen,
      2 * SampleDen, -2 * SampleDen }

SampleValues == { a + d : a \in SampleAnchors, d \in (-MaxOffset)..MaxOffset }

SampleArrays == UNION { [1..n -> SampleValues] : n \in 0..MaxSamples }

SampleRates == { SAMPLE_RATE, TTS_SAMPLE_RATE }

\* the variables of transcribeLargeAudio while no run exists
TIdle ==
    /\ pc = "idle" /\ file = 0 /\ apiKey = TRUE /\ ctxOpen = FALSE
    /\ pcmLength = 0 /\ startTime = 0 /\ fullTranscript = <<>>
    /\ inFlight = <<>> /\ requests = <<>> /\ responses = <<>>
    /\ result = [kind |-> "pending"]

\* the variables of the encoder while it is not in use
WIdle ==
    /\ wpc = "idle" /\ samples = <<>> /\ sampleRate = SAMPLE_RATE
    /\ wav = <<>> /\ decoded = <<>>

WavInit ==
    /\ wpc = "ready"
    /\ samples \in SampleArrays
    /\ sampleRate \in SampleRates
    /\ wav = <<>>
    /\ decoded = <<>>
    /\ TIdle
    /\ SIdle
    /\ AIdle
    /\ LIdle
    /\ DIdle
    /\ FIdle

\* a call of encodeWAV(samples, sampleRate)
EncodeWAV ==
    /\ wpc = "ready"
    /\ wav' = encodeWAV(samples, sampleRate)
    /\ wpc' = "encoded"
    /\ UNCHANGED <<samples, sampleRate, decoded, tvars, svars, avars, lvars, dvars, fvars>>

\* the stored PCM read back as floats (new Int16Array, v / 32768.0)
DecodeSamples ==
    /\ wpc = "encoded"
    /\ decoded' = DecodePCM(SubSeq(wav, WAV_HEADER_BYTES + 1, Len(wav)))
    /\ wpc' = "decoded"
    /\ UNCHANGED <<samples, sampleRate, wav, tvars, svars, avars, lvars, dvars, fvars>>

WavNext == EncodeWAV \/ DecodeSamples

SpecWav == WavInit /\ [][WavNext]_vars

---------------------------------------------------------------------------
(* SpecDownload: handleDownloadAudio on the PCM of the speech service *)

\* the extremes, the halves and the least values of both signs
Int16Anchors == { 0, INT16_SCALE \div 2, -(INT16_SCALE \div 2), INT16_MAX, -INT16_SCALE }

\* the int16 values the speech service may send
Int16Values ==
    { v \in { a + o : a \in Int16Anchors, o \in (-MaxOffset)..MaxOffset } :
        v >= -INT16_SCALE /\ v <= INT16_MAX }

Int16Arrays == UNION { [1..n -> Int16Values] : n \in 0..MaxSamples }

DownloadInit ==
    /\ dpc = "ready"
    /\ dataInt16 \in Int16Arrays
    /\ float32Samples = <<>>
    /\ download = <<>>
    /\ WIdle
    /\ TIdle
    /\ SIdle
    /\ AIdle
    /\ LIdle
    /\ FIdle

\* float32Samples[i] = dataInt16[i] / 32768.0
ToFloat32Samples(ints) == [i \in 1..Len(ints) |-> DecodeInt16(ints[i])]

\* the header and the sample loop written out in handleDownloadAudio
DownloadWav(smp) ==
    LET buffer == [i \in 1..(WAV_HEADER_BYTES + Len(smp) * 2) |-> 0]
    IN  WriteSamples(WriteHeader(buffer, Len(smp), TTS_SAMPLE_RATE), smp, 0,
                     WAV_HEADER_BYTES)

\* generateSpeech rejects: the error is shown and nothing is written
SpeechFails ==
    /\ dpc = "ready"
    /\ dpc' = "failed"
    /\ UNCHANGED <<dataInt16, float32Samples, download, wvars, tvars, svars,
                   avars, lvars, fvars>>

\* the audio is at hand: it is converted, encoded and offered for download
WriteDownload ==
    /\ dpc = "ready"
    /\ float32Samples' = ToFloat32Samples(dataInt16)
    /\ download' = DownloadWav(ToFloat32Samples(dataInt16))
    /\ dpc' = "written"
    /\ UNCHANGED <<dataInt16, wvars, tvars, svars, avars, lvars, fvars>>

DownloadNext == SpeechFails \/ WriteDownload

SpecDownload == DownloadInit /\ [][DownloadNext]_vars

---------------------------------------------------------------------------
(* Times as IEEE-754 doubles                                               *)
(*                                                                         *)
(* Every time of the chunk loop is the double nearest to num / SAMPLE_RATE *)
(* for an integer num >= 0 and is held as num: whole seconds are exact     *)
(* (num = s * SAMPLE_RATE) and audioBuffer.duration is length / sampleRate *)
(* rounded.  Rounding is monotone and leaves whole seconds unchanged, so   *)
(* the comparisons of a whole second with a duration are those of the      *)
(* numerators.                                                             *)

\* startTime and startTime + CHUNK_DURATION_SEC: whole seconds
Seconds(s) == s * SAMPLE_RATE

\* audioBuffer.duration for a buffer of length samples at SAMPLE_RATE
Duration(length) == length

RECURSIVE Pow2(_)
Pow2(k) == IF k <= 0 THEN 1 ELSE 2 * Pow2(k - 1)

\* 2^k modulo SAMPLE_RATE
RECURSIVE Pow2Mod(_)
Pow2Mod(k) == IF k = 0 THEN 1 ELSE (2 * Pow2Mod(k - 1)) % SAMPLE_RATE

RECURSIVE HalvingsAbove(_)
HalvingsAbove(x) ==
    IF x \div 2 >= SAMPLE_RATE THEN 1 + HalvingsAbove(x \div 2) ELSE 0

RECURSIVE DoublingsBelow(_)
DoublingsBelow(x) == IF x >= SAMPLE_RATE THEN 0 ELSE 1 + DoublingsBelow(2 * x)

\* the binary exponent e of num / SAMPLE_RATE: 2^e <= num / SAMPLE_RATE < 2^(e+1)
QuotientExponent(num) ==
    IF num >= SAMPLE_RATE THEN HalvingsAbove(num) ELSE -DoublingsBelow(num)

\* the largest f with 2^f < x, for x >= 1
RECURSIVE ExponentBelow(_)
ExponentBelow(x) == IF x <= 1 THEN -1 ELSE 1 + ExponentBelow((x + 1) \div 2)

\* With q the double nearest to num / SAMPLE_RATE and e its exponent, the
\* significand m of q satisfies num * 2^(52-e) = SAMPLE_RATE * m + r with
\* |r| < SAMPLE_RATE / 2, so that q * SAMPLE_RATE = num - r * 2^(e-52)
\* exactly: r is the rounding error of the division, in units of the last
\* place of q, times SAMPLE_RATE.
DivisionError(num) ==
    LET rem == ((num % SAMPLE_RATE) * Pow2Mod(52 - QuotientExponent(num)))
                   % SAMPLE_RATE
    IN  IF 2 * rem > SAMPLE_RATE THEN rem - SAMPLE_RATE ELSE rem

\* Math.floor(t * SAMPLE_RATE) for the time t held as num.  The doubles just
\* below num are 2^(f-52) apart (2^f < num <= 2^(f+1)); the product
\* num - r * 2^(e-52) rounds to num unless it lies more than half that
\* spacing below num (a tie rounds to num, whose significand is even), and
\* then the floor is num - 1.
FloorTimesRate(num) ==
    IF num = 0 THEN 0
    ELSE IF DivisionError(num)
              > Pow2(ExponentBelow(num) - QuotientExponent(num) - 1)
         THEN num - 1
         ELSE num

\* startTime < totalDuration
TimeLess(startSec, duration) == Seconds(startSec) < duration

\* Math.min(startTime + CHUNK_DURATION_SEC, totalDuration)
EndTime(startSec, duration) ==
    IF Seconds(startSec + CHUNK_DURATION_SEC) <= duration
    THEN Seconds(startSec + CHUNK_DURATION_SEC)
    ELSE duration

\* pcmData.slice(startSample, endSample).length for a buffer of length samples
SliceLength(length, startSample, endSample) ==
    LET lo == IF startSample < length THEN startSample ELSE length
        hi == IF endSample < length THEN endSample ELSE length
    IN  IF hi > lo THEN hi - lo ELSE 0

---------------------------------------------------------------------------
(* Strings: sequences of characters *)

Chars == {"a", " "}

\* the positions of str that hold something other than white space
NonSpace(str) == { i \in 1..Len(str) : str[i] # " " }

\* the leading white space is dropped: the string from its first other character
TrimStart(str) ==
    IF NonSpace(str) = {} THEN <<>>
    ELSE SubSeq(str, CHOOSE i \in NonSpace(str) :
                         \A j \in NonSpace(str) : i <= j, Len(str))

\* the trailing white space is dropped: the string up to its last other character
TrimEnd(str) ==
    IF NonSpace(str) = {} THEN <<>>
    ELSE SubSeq(str, 1, CHOOSE i \in NonSpace(str) :
                            \A j \in NonSpace(str) : i >= j)

\* String.prototype.trim
Trim(str) == TrimEnd(TrimStart(str))

\* what the service may put into response.text (undefined reads as "")
RawTexts == UNION { [1..n -> Chars] : n \in 0..MaxTextLen }

---------------------------------------------------------------------------
(* transcribeLargeAudio (Spec) *)

Corrupt == -1

\* the longest recording: 219 full chunks and one more sample
LongSeconds == 219 * CHUNK_DURATION_SEC

DurationSeconds == {0, 1, 2, CHUNK_DURATION_SEC, 2 * CHUNK_DURATION_SEC, 700}

\* the lengths, in samples, a file may decode to
Lengths ==
    { Seconds(s) + x : s \in DurationSeconds, x \in 0..MaxExtraSamples }
        \cup { Seconds(LongSeconds) + 1 }

Files == Lengths \cup {Corrupt}

Pending == [kind |-> "pending"]
Resolved(text) == [kind |-> "resolved", text |-> text]
Rejected(message) == [kind |-> "rejected", message |-> message]

Init ==
    /\ pc = "idle"
    /\ file \in Files
    /\ apiKey \in BOOLEAN
    /\ ctxOpen = FALSE
    /\ pcmLength = 0
    /\ startTime = 0
    /\ fullTranscript = <<>>
    /\ inFlight = <<>>
    /\ requests = <<>>
    /\ responses = <<>>
    /\ result = Pending
    /\ WIdle
    /\ SIdle
    /\ AIdle
    /\ LIdle
    /\ DIdle
    /\ FIdle

\* the catch block: every error leaves as the same new Error
Catch ==
    /\ pc' = "rejected"
    /\ result' = Rejected("Failed to process large audio file.")

\* transcribeLargeAudio(file) up to its first await: the AudioContext is made
Call ==
    /\ pc = "idle"
    /\ ctxOpen' = TRUE
    /\ pc' = "decoding"
    /\ UNCHANGED <<file, apiKey, pcmLength, startTime, fullTranscript,
                   inFlight, requests, responses, result, wvars, svars, avars, lvars, dvars, fvars>>

\* decodeAudioData resolves; the loop variables are set up
Decode ==
    /\ pc = "decoding"
    /\ file # Corrupt
    /\ pcmLength' = file
    /\ fullTranscript' = <<>>
    /\ startTime' = 0
    /\ pc' = "loop"
    /\ UNCHANGED <<file, apiKey, ctxOpen, inFlight, requests, responses,
                   result, wvars, svars, avars, lvars, dvars, fvars>>

\* decodeAudioData rejects and the undecoded file is sent instead
DecodeFailureFallsBack ==
    /\ pc = "decoding"
    /\ file = Corrupt
    /\ requests' = Append(requests, [mimeType |-> "audio/webm"])
    /\ inFlight' = Append(inFlight, [mimeType |-> "audio/webm"])
    /\ pc' = "awaiting"
    /\ UNCHANGED <<file, apiKey, ctxOpen, pcmLength, startTime,
                   fullTranscript, responses, result, wvars, svars, avars, lvars, dvars, fvars>>

\* decodeAudioData rejects
DecodeFailure ==
    /\ pc = "decoding"
    /\ file = Corrupt
    /\ Catch
    /\ UNCHANGED <<file, apiKey, ctxOpen, pcmLength, startTime,
                   fullTranscript, inFlight, requests, responses, wvars, svars, avars, lvars, dvars, fvars>>

\* the loop guard with <= in place of <
LoopGuardInclusive(startSec, length) == Seconds(startSec) <= Duration(length)

\* the loop guard
LoopGuard(startSec, length) == TimeLess(startSec, Duration(length))

\* the chunk of one iteration: the arguments of slice and what it returns
Chunk(startSec, length) ==
    LET endTime     == EndTime(startSec, Duration(length))
        startSample == FloorTimesRate(Seconds(startSec))
        endSample   == FloorTimesRate(endTime)
    IN  [ startSample |-> startSample,
          endSample   |-> endSample,
          samples     |-> SliceLength(length, startSample, endSample),
          wavBytes    |-> WAV_HEADER_BYTES
                            + 2 * SliceLength(length, startSample, endSample),
          mimeType    |-> "audio/wav" ]

\* whether the next iteration may start: the previous await has returned
MaySendWhileAwaiting == pc \in {"loop", "awaiting"}

MaySend == pc = "loop"

\* one iteration up to the await: the chunk is cut, encoded and sent
SendChunk ==
    /\ MaySend
    /\ LoopGuard(startTime, pcmLength)
    /\ apiKey
    /\ inFlight' = Append(inFlight, Chunk(startTime, pcmLength))
    /\ requests' = Append(requests, Chunk(startTime, pcmLength))
    /\ pc' = "awaiting"
    /\ UNCHANGED <<file, apiKey, ctxOpen, pcmLength, startTime,
                   fullTranscript, responses, result, wvars, svars, avars, lvars, dvars, fvars>>

\* getAiClient throws inside transcribeAudio: nothing is sent
SendChunkNoKey ==
    /\ MaySend
    /\ LoopGuard(startTime, pcmLength)
    /\ ~apiKey
    /\ Catch
    /\ UNCHANGED <<file, apiKey, ctxOpen, pcmLength, startTime,
                   fullTranscript, inFlight, requests, responses, wvars, svars, avars, lvars, dvars, fvars>>

\* the accumulator with the new transcript put in front
AppendTranscriptInFront(acc, chunkTranscript) == chunkTranscript \o <<" ">> \o acc

\* fullTranscript += " " + chunkTranscript
AppendTranscript(acc, chunkTranscript) == acc \o <<" ">> \o chunkTranscript

\* the request returns: transcribeAudio trims the text, the loop appends it
ChunkResponse ==
    /\ pc = "awaiting"
    /\ inFlight # <<>>
    /\ \E raw \in RawTexts :
          /\ Len(responses) >= MaxSpoken => Trim(raw) = <<>>
          /\ fullTranscript' = AppendTranscript(fullTranscript, Trim(raw))
          /\ responses' = Append(responses, Trim(raw))
    /\ inFlight' = Tail(inFlight)
    /\ startTime' = startTime + CHUNK_DURATION_SEC
    /\ pc' = "loop"
    /\ UNCHANGED <<file, apiKey, ctxOpen, pcmLength, requests, result, wvars, svars, avars, lvars, dvars, fvars>>

\* the catch block returning what has been transcribed so far
ChunkFailureKeepsPartial ==
    /\ pc = "awaiting"
    /\ inFlight # <<>>
    /\ inFlight' = Tail(inFlight)
    /\ pc' = "rejected"
    /\ result' = Resolved(Trim(fullTranscript))
    /\ UNCHANGED <<file, apiKey, ctxOpen, pcmLength, startTime,
                   fullTranscript, requests, responses, wvars, svars, avars, lvars, dvars, fvars>>

\* the request fails: transcribeAudio throws, the catch block rethrows
ChunkFailure ==
    /\ pc = "awaiting"
    /\ inFlight # <<>>
    /\ inFlight' = Tail(inFlight)
    /\ Catch
    /\ UNCHANGED <<file, apiKey, ctxOpen, pcmLength, startTime,
                   fullTranscript, requests, responses, wvars, svars, avars, lvars, dvars, fvars>>

\* the loop ends: the context is closed and the transcript returned
Finish ==
    /\ MaySend
    /\ ~LoopGuard(startTime, pcmLength)
    /\ ctxOpen' = FALSE
    /\ result' = Resolved(Trim(fullTranscript))
    /\ pc' = "resolved"
    /\ UNCHANGED <<file, apiKey, pcmLength, startTime, fullTranscript,
                   inFlight, requests, responses, wvars, svars, avars, lvars, dvars, fvars>>

Next ==
    \/ Call
    \/ Decode
    \/ DecodeFailure
    \/ SendChunk
    \/ SendChunkNoKey
    \/ ChunkResponse
    \/ ChunkFailure
    \/ Finish

Spec == Init /\ [][Next]_vars

---------------------------------------------------------------------------
(* SpecServices: calls of the two services on one localStorage *)

\* the seconds handleProcess charges: the fallback minute, half an hour,
\* and a duration the media element reports as unknown
UsageSeconds == {SECONDS_PER_MINUTE, FREE_MAX_MINUTES * SECONDS_PER_MINUTE, Infinity}

ServicesInit ==
    /\ storage \in InitialStorages
    /\ call = NoCall
    /\ returned = NoOutcome
    /\ ncalls = 0
    /\ WIdle
    /\ TIdle
    /\ AIdle
    /\ LIdle
    /\ DIdle
    /\ FIdle

MayCall == ncalls < MaxCalls

GetSubscription ==
    /\ MayCall
    /\ storage' = getSubscription(storage).storage
    /\ returned' = Returned(getSubscription(storage).value)
    /\ call' = [op |-> "getSubscription", before |-> storage]
    /\ ncalls' = ncalls + 1
    /\ UNCHANGED <<wvars, tvars, avars, lvars, dvars, fvars>>

\* addUsageMinutes as handleProcess calls it, the limit having been checked
AddUsageMinutes ==
    /\ MayCall
    /\ \E seconds \in UsageSeconds :
          /\ checkLimits(getSubscription(storage).value, seconds)
          /\ storage' = addUsageMinutes(storage, seconds).storage
          /\ returned' = Returned(addUsageMinutes(storage, seconds).value)
          /\ call' = [op |-> "addUsageMinutes", before |-> storage,
                      seconds |-> seconds]
    /\ ncalls' = ncalls + 1
    /\ UNCHANGED <<wvars, tvars, avars, lvars, dvars, fvars>>

UpgradePlan ==
    /\ MayCall
    /\ \E tier \in PlanTiers :
          /\ storage' = upgradePlan(storage, tier).storage
          /\ returned' = Returned(upgradePlan(storage, tier).value)
          /\ call' = [op |-> "upgradePlan", before |-> storage, tier |-> tier]
    /\ ncalls' = ncalls + 1
    /\ UNCHANGED <<wvars, tvars, avars, lvars, dvars, fvars>>

ActivateDeveloperPlan ==
    /\ MayCall
    /\ storage' = activateDeveloperPlan(storage).storage
    /\ returned' = Returned(activateDeveloperPlan(storage).value)
    /\ call' = [op |-> "activateDeveloperPlan", before |-> storage]
    /\ ncalls' = ncalls + 1
    /\ UNCHANGED <<wvars, tvars, avars, lvars, dvars, fvars>>

Login ==
    /\ MayCall
    /\ \E email \in Emails, password \in Passwords :
          /\ storage' = login(storage, email, password).storage
          /\ returned' = login(storage, email, password).value
          /\ call' = [op |-> "login", before |-> storage, email |-> email,
                      password |-> password]
    /\ ncalls' = ncalls + 1
    /\ UNCHANGED <<wvars, tvars, avars, lvars, dvars, fvars>>

ServicesNext ==
    \/ GetSubscription
    \/ AddUsageMinutes
    \/ UpgradePlan
    \/ ActivateDeveloperPlan
    \/ Login

SpecServices == ServicesInit /\ [][ServicesNext]_vars

---------------------------------------------------------------------------
(* SpecApp: the handlers of the App component                              *)
(*                                                                         *)
(* One action per handler, and one per continuation of a handler after an  *)
(* await.  The services awaited by handleProcess are its environment: each *)
(* call either resolves or rejects.                                        *)

\* the durations getAudioDuration resolves with: two hours and a minute,
\* and a stream of unknown length
UploadDurations == { (BASIC_MAX_MINUTES + 1) * SECONDS_PER_MINUTE, Infinity }

\* the transcripts transcribeLargeAudio resolves with
Transcripts == {"", "text"}

\* err.message of a rejection; "" stands for a rejection without a message
ErrorMessages == {"Failed to process large audio file.", ""}

\* the codes of TARGET_LANGUAGES that matter: English and any other
TargetLangs == {"en", "pt"}

\* the fallback of audioData.duration || 60
UNKNOWN_DURATION_SEC == 60

\* the tiers the pricing modal offers
OfferedTiers == {"basic", "advanced"}

\* what localStorage holds when the component mounts: what an earlier
\* session left, the developer's login included
MountStorages ==
    InitialStorages \cup {login(EmptyStorage, DEV_EMAIL, DEV_PASSWORD).storage}

AppInit ==
    /\ \E store \in MountStorages :
          /\ storage = getSubscription(store).storage
          /\ subscription = getSubscription(store).value
    /\ call = NoCall /\ returned = NoOutcome /\ ncalls = 0
    /\ status = "IDLE"
    /\ error = NoError
    /\ audioData = NoAudio
    /\ appResult = NoResult
    /\ history = <<>>
    /\ showPricing = FALSE
    /\ targetLang = "en"
    /\ recorder = "inactive"
    /\ recordingDuration = 0
    /\ onstopDuration = 0
    /\ pendingUpload = NoUpload
    /\ runs = <<>>
    /\ nruns = 0
    /\ WIdle
    /\ TIdle
    /\ LIdle
    /\ DIdle
    /\ FIdle

isRecording == recorder # "inactive"

\* the page behind the pricing modal takes no clicks
PageTakesClicks == ~showPricing

\* the source controls are rendered
SourceControlsShown == audioData = NoAudio /\ ~isRecording

\* setStatus(IDLE); setAudioData(null); setResult(null); setError(null);
\* setRecordingDuration(0)
resetApp ==
    /\ status' = "IDLE"
    /\ audioData' = NoAudio
    /\ appResult' = NoResult
    /\ error' = NoError
    /\ recordingDuration' = 0

ResetApp ==
    /\ PageTakesClicks
    /\ audioData # NoAudio
    /\ ~isRecording
    /\ resetApp
    /\ UNCHANGED <<subscription, history, showPricing, targetLang, recorder,
                   onstopDuration, pendingUpload, runs, nruns,
                   svars, wvars, tvars, lvars, dvars, fvars>>

\* startRecording when the limit check fails
StartRecordingOverLimit ==
    /\ PageTakesClicks
    /\ SourceControlsShown
    /\ ~checkLimits(subscription, 1)
    /\ showPricing' = TRUE
    /\ UNCHANGED <<subscription, status, error, audioData, appResult, history,
                   targetLang, recorder, recordingDuration, onstopDuration,
                   pendingUpload, runs, nruns, svars, wvars, tvars, lvars, dvars, fvars>>

\* the value of recordingDuration the onstop handler will read: the one of
\* the render in which startRecording was created
ClosureValue(captured, counter) == captured

\* startRecording: the recorder is created with its onstop handler, the
\* counter is reset and the timer started
StartRecording ==
    /\ PageTakesClicks
    /\ SourceControlsShown
    /\ checkLimits(subscription, 1)
    /\ error' = NoError
    /\ onstopDuration' = recordingDuration
    /\ recorder' = "recording"
    /\ status' = "RECORDING"
    /\ recordingDuration' = 0
    /\ UNCHANGED <<subscription, audioData, appResult, history, showPricing,
                   targetLang, pendingUpload, runs, nruns,
                   svars, wvars, tvars, lvars, dvars, fvars>>

\* startRecording when getUserMedia rejects
MicrophoneRefused ==
    /\ PageTakesClicks
    /\ SourceControlsShown
    /\ checkLimits(subscription, 1)
    /\ error' = "Could not access microphone."
    /\ UNCHANGED <<subscription, status, audioData, appResult, history,
                   showPricing, targetLang, recorder, recordingDuration,
                   onstopDuration, pendingUpload, runs, nruns,
                   svars, wvars, tvars, lvars, dvars, fvars>>

\* the interval callback: setRecordingDuration(prev => prev + 1)
Tick ==
    /\ recorder = "recording"
    /\ recordingDuration < MaxTicks
    /\ recordingDuration' = recordingDuration + 1
    /\ UNCHANGED <<subscription, status, error, audioData, appResult, history,
                   showPricing, targetLang, recorder, onstopDuration,
                   pendingUpload, runs, nruns, svars, wvars, tvars, lvars, dvars, fvars>>

\* stopRecording: the recorder is stopped and the interval cleared
StopRecording ==
    /\ PageTakesClicks
    /\ recorder = "recording"
    /\ recorder' = "stopping"
    /\ UNCHANGED <<subscription, status, error, audioData, appResult, history,
                   showPricing, targetLang, recordingDuration, onstopDuration,
                   pendingUpload, runs, nruns, svars, wvars, tvars, lvars, dvars, fvars>>

\* mediaRecorder.onstop
RecorderStopped ==
    /\ recorder = "stopping"
    /\ audioData' = [ mimeType |-> "audio/webm",
                      duration |-> ClosureValue(onstopDuration,
                                                recordingDuration) ]
    /\ status' = "IDLE"
    /\ recorder' = "inactive"
    /\ UNCHANGED <<subscription, error, appResult, history, showPricing,
                   targetLang, recordingDuration, onstopDuration,
                   pendingUpload, runs, nruns, svars, wvars, tvars, lvars, dvars, fvars>>

\* handleFileUpload up to its await
HandleFileUpload ==
    /\ PageTakesClicks
    /\ SourceControlsShown
    /\ pendingUpload = NoUpload
    /\ resetApp
    /\ \E duration \in UploadDurations : pendingUpload' = duration
    /\ UNCHANGED <<subscription, history, showPricing, targetLang, recorder,
                   onstopDuration, runs, nruns, svars, wvars, tvars, lvars, dvars, fvars>>

\* handleFileUpload after getAudioDuration has resolved
FileMeasured ==
    /\ pendingUpload # NoUpload
    /\ audioData' = [mimeType |-> "audio/mp3", duration |-> pendingUpload]
    /\ pendingUpload' = NoUpload
    /\ UNCHANGED <<subscription, status, error, appResult, history,
                   showPricing, targetLang, recorder, recordingDuration,
                   onstopDuration, runs, nruns, svars, wvars, tvars, lvars, dvars, fvars>>

\* audioData.duration || 60
EstimatedDuration(audio) ==
    IF audio.duration = 0 THEN UNKNOWN_DURATION_SEC ELSE audio.duration

\* the process button is rendered enabled
ProcessEnabled ==
    /\ PageTakesClicks
    /\ audioData # NoAudio
    /\ ~isRecording
    /\ status \notin {"TRANSCRIBING", "TRANSLATING"}

\* handleProcess when the limit check fails
HandleProcessOverLimit ==
    /\ ProcessEnabled
    /\ ~checkLimits(subscription, EstimatedDuration(audioData))
    /\ showPricing' = TRUE
    /\ UNCHANGED <<subscription, status, error, audioData, appResult, history,
                   targetLang, recorder, recordingDuration, onstopDuration,
                   pendingUpload, runs, nruns, svars, wvars, tvars, lvars, dvars, fvars>>

\* handleProcess up to its first await; what the closure holds is kept in
\* the run
HandleProcessStart ==
    /\ ProcessEnabled
    /\ nruns < MaxRuns
    /\ checkLimits(subscription, EstimatedDuration(audioData))
    /\ status' = "TRANSCRIBING"
    /\ error' = NoError
    /\ runs' = Append(runs, [ phase |-> "transcribing",
                              estimatedDuration |-> EstimatedDuration(audioData),
                              canTranslate |-> subscription.canTranslate,
                              targetLang |-> targetLang,
                              transcript |-> "" ])
    /\ nruns' = nruns + 1
    /\ UNCHANGED <<subscription, audioData, appResult, history, showPricing,
                   targetLang, recorder, recordingDuration, onstopDuration,
                   pendingUpload, svars, wvars, tvars, lvars, dvars, fvars>>

HandleProcess == HandleProcessOverLimit \/ HandleProcessStart

\* runs without its i-th element
Without(seq, i) == SubSeq(seq, 1, i - 1) \o SubSeq(seq, i + 1, Len(seq))

\* the catch block of handleProcess, which also charges the run
CatchAndCharge(i, message) ==
    /\ error' = IF message = "" THEN "An error occurred." ELSE message
    /\ status' = "ERROR"
    /\ runs' = Without(runs, i)
    /\ storage' = addUsageMinutes(storage, runs[i].estimatedDuration).storage
    /\ subscription' = addUsageMinutes(storage, runs[i].estimatedDuration).value
    /\ UNCHANGED <<audioData, appResult, history, showPricing,
                   targetLang, recorder, recordingDuration, onstopDuration,
                   pendingUpload, nruns, call, returned, ncalls,
                   wvars, tvars, lvars, dvars, fvars>>

\* the catch block of handleProcess:
\* setError(err.message || "An error occurred."); setStatus(ERROR)
CatchInProcess(i, message) ==
    /\ error' = IF message = "" THEN "An error occurred." ELSE message
    /\ status' = "ERROR"
    /\ runs' = Without(runs, i)
    /\ UNCHANGED <<subscription, audioData, appResult, history, showPricing,
                   targetLang, recorder, recordingDuration, onstopDuration,
                   pendingUpload, nruns, svars, wvars, tvars, lvars, dvars, fvars>>

\* transcribeLargeAudio resolves: extractTitle is called
TranscribeResolves ==
    \E i \in 1..Len(runs), transcript \in Transcripts :
        /\ runs[i].phase = "transcribing"
        /\ runs' = [runs EXCEPT ![i].phase = "title",
                                ![i].transcript = transcript]
        /\ UNCHANGED <<subscription, status, error, audioData, appResult,
                       history, showPricing, targetLang, recorder,
                       recordingDuration, onstopDuration, pendingUpload,
                       nruns, svars, wvars, tvars, lvars, dvars, fvars>>

\* transcribeLargeAudio rejects
TranscribeRejects ==
    \E i \in 1..Len(runs), message \in ErrorMessages :
        /\ runs[i].phase = "transcribing"
        /\ CatchInProcess(i, message)

\* the condition without the subscription's translation right
TranslatesWithoutRight(run) ==
    run.transcript # "" /\ run.targetLang # "en"

\* whether the run goes on to translate its transcript
Translates(run) ==
    run.transcript # "" /\ run.canTranslate /\ run.targetLang # "en"

\* extractTitle resolves: the usage is charged, the transcription recorded
\* and shown, and the translation started or the run completed
TitleResolves ==
    \E i \in 1..Len(runs) :
        /\ runs[i].phase = "title"
        /\ storage' = addUsageMinutes(storage, runs[i].estimatedDuration).storage
        /\ subscription' =
               addUsageMinutes(storage, runs[i].estimatedDuration).value
        /\ history' = Append(history, "transcription")
        /\ appResult' = [originalText |-> runs[i].transcript,
                         translated |-> FALSE]
        /\ IF Translates(runs[i])
           THEN /\ status' = "TRANSLATING"
                /\ runs' = [runs EXCEPT ![i].phase = "translating"]
           ELSE /\ status' = "COMPLETED"
                /\ runs' = Without(runs, i)
        /\ UNCHANGED <<error, audioData, showPricing, targetLang, recorder,
                       recordingDuration, onstopDuration, pendingUpload,
                       nruns, call, returned, ncalls, wvars, tvars, lvars, dvars, fvars>>

\* extractTitle rejects
TitleRejects ==
    \E i \in 1..Len(runs), message \in ErrorMessages :
        /\ runs[i].phase = "title"
        /\ CatchInProcess(i, message)

\* translateLongText resolves
TranslateResolves ==
    \E i \in 1..Len(runs) :
        /\ runs[i].phase = "translating"
        /\ history' = Append(history, "translation")
        /\ appResult' = IF appResult # NoResult
                        THEN [appResult EXCEPT !.translated = TRUE]
                        ELSE NoResult
        /\ status' = "COMPLETED"
        /\ runs' = Without(runs, i)
        /\ UNCHANGED <<subscription, error, audioData, showPricing,
                       targetLang, recorder, recordingDuration,
                       onstopDuration, pendingUpload, nruns,
                       svars, wvars, tvars, lvars, dvars, fvars>>

\* translateLongText rejects
TranslateRejects ==
    \E i \in 1..Len(runs), message \in ErrorMessages :
        /\ runs[i].phase = "translating"
        /\ CatchInProcess(i, message)

\* handleUpgrade(tier), from a button of the pricing modal
HandleUpgrade ==
    /\ showPricing
    /\ \E tier \in OfferedTiers \ {subscription.tier} :
          /\ storage' = upgradePlan(storage, tier).storage
          /\ subscription' = upgradePlan(storage, tier).value
    /\ showPricing' = FALSE
    /\ UNCHANGED <<status, error, audioData, appResult, history, targetLang,
                   recorder, recordingDuration, onstopDuration, pendingUpload,
                   runs, nruns, call, returned, ncalls, wvars, tvars, lvars, dvars, fvars>>

\* the language select: setTargetLang(e.target.value)
SelectTargetLang ==
    /\ PageTakesClicks
    /\ \E lang \in TargetLangs \ {targetLang} : targetLang' = lang
    /\ UNCHANGED <<subscription, status, error, audioData, appResult, history,
                   showPricing, recorder, recordingDuration, onstopDuration,
                   pendingUpload, runs, nruns, svars, wvars, tvars, lvars,
                   dvars, fvars>>

\* the modal's onClose
ClosePricing ==
    /\ showPricing
    /\ showPricing' = FALSE
    /\ UNCHANGED <<subscription, status, error, audioData, appResult, history,
                   targetLang, recorder, recordingDuration, onstopDuration,
                   pendingUpload, runs, nruns, svars, wvars, tvars, lvars, dvars, fvars>>

AppNext ==
    \/ ResetApp
    \/ StartRecordingOverLimit
    \/ StartRecording
    \/ MicrophoneRefused
    \/ Tick
    \/ StopRecording
    \/ RecorderStopped
    \/ HandleFileUpload
    \/ FileMeasured
    \/ HandleProcessOverLimit
    \/ HandleProcessStart
    \/ TranscribeResolves
    \/ TranscribeRejects
    \/ TitleResolves
    \/ TitleRejects
    \/ TranslateResolves
    \/ TranslateRejects
    \/ HandleUpgrade
    \/ SelectTargetLang
    \/ ClosePricing

SpecApp == AppInit /\ [][AppNext]_vars

---------------------------------------------------------------------------
(* SpecTranslate: translateLongText *)

CHUNK_SIZE == 8000

\* paragraph lengths around the chunk size and its half
ParagraphLengths == {0, 1, CHUNK_SIZE \div 2, CHUNK_SIZE, CHUNK_SIZE + 1}

\* the texts of at most MaxParagraphs paragraphs
Texts ==
    {<<>>} \cup
    UNION { { JoinParagraphs([i \in 1..n |-> [index |-> i, length |-> len[i]]]) :
                len \in [1..n -> ParagraphLengths] } : n \in 1..MaxParagraphs }

TranslateInit ==
    /\ lpc = "idle"
    /\ longText \in Texts
    /\ paragraphs = <<>>
    /\ currentChunk = <<>>
    /\ chunks = <<>>
    /\ sent = <<>>
    /\ nextChunk = 1
    /\ WIdle
    /\ TIdle
    /\ SIdle
    /\ AIdle
    /\ DIdle
    /\ FIdle

\* text.length <= CHUNK_SIZE: the text goes to translateText as it is
ShortText ==
    /\ lpc = "idle"
    /\ StrLength(longText) <= CHUNK_SIZE
    /\ sent' = Append(sent, longText)
    /\ lpc' = "direct"
    /\ UNCHANGED <<longText, paragraphs, currentChunk, chunks, nextChunk,
                   wvars, tvars, svars, avars, dvars, fvars>>

\* a longer text is split into paragraphs
LongText ==
    /\ lpc = "idle"
    /\ StrLength(longText) > CHUNK_SIZE
    /\ paragraphs' = split(longText)
    /\ lpc' = "splitting"
    /\ UNCHANGED <<longText, currentChunk, chunks, sent, nextChunk,
                   wvars, tvars, svars, avars, dvars, fvars>>

\* (currentChunk.length + para.length) > CHUNK_SIZE && currentChunk.length > 0
ChunkIsFull(chunk, para) ==
    StrLength(chunk) + para.length > CHUNK_SIZE /\ StrLength(chunk) > 0

\* chunk + (chunk ? "\n\n" : "") + para
AddParagraph(chunk, para) ==
    IF chunk # <<>> THEN Append(chunk, para) ELSE ParagraphString(para)

\* one iteration of the loop over the paragraphs
NextParagraph ==
    /\ lpc = "splitting"
    /\ paragraphs # <<>>
    /\ LET para == Head(paragraphs) IN
         IF ChunkIsFull(currentChunk, para)
         THEN /\ chunks' = Append(chunks, currentChunk)
              /\ currentChunk' = AddParagraph(<<>>, para)
         ELSE /\ chunks' = chunks
              /\ currentChunk' = AddParagraph(currentChunk, para)
    /\ paragraphs' = Tail(paragraphs)
    /\ UNCHANGED <<lpc, longText, sent, nextChunk, wvars, tvars, svars, avars, dvars, fvars>>

\* after the loop: if (currentChunk) chunks.push(currentChunk)
LastChunk ==
    /\ lpc = "splitting"
    /\ paragraphs = <<>>
    /\ chunks' = IF currentChunk # <<>> THEN Append(chunks, currentChunk)
                 ELSE chunks
    /\ lpc' = "sending"
    /\ UNCHANGED <<longText, paragraphs, currentChunk, sent, nextChunk,
                   wvars, tvars, svars, avars, dvars, fvars>>

\* the second loop: the next chunk is passed to translateText
TranslateChunk ==
    /\ lpc = "sending"
    /\ nextChunk <= Len(chunks)
    /\ sent' = Append(sent, chunks[nextChunk])
    /\ lpc' = "awaiting"
    /\ UNCHANGED <<longText, paragraphs, currentChunk, chunks, nextChunk,
                   wvars, tvars, svars, avars, dvars, fvars>>

\* translateText resolves for a chunk
ChunkTranslated ==
    /\ lpc = "awaiting"
    /\ nextChunk' = nextChunk + 1
    /\ lpc' = "sending"
    /\ UNCHANGED <<longText, paragraphs, currentChunk, chunks, sent,
                   wvars, tvars, svars, avars, dvars, fvars>>

\* translateText rejects: translateLongText rejects with it
TranslateTextRejects ==
    /\ lpc \in {"awaiting", "direct"}
    /\ lpc' = "rejected"
    /\ UNCHANGED <<longText, paragraphs, currentChunk, chunks, sent, nextChunk,
                   wvars, tvars, svars, avars, dvars, fvars>>

\* the translation is returned: of the whole text, or of all the chunks
TranslationReturned ==
    /\ \/ lpc = "direct"
       \/ lpc = "sending" /\ nextChunk > Len(chunks)
    /\ lpc' = "resolved"
    /\ UNCHANGED <<longText, paragraphs, currentChunk, chunks, sent, nextChunk,
                   wvars, tvars, svars, avars, dvars, fvars>>

TranslateNext ==
    \/ ShortText
    \/ LongText
    \/ NextParagraph
    \/ LastChunk
    \/ TranslateChunk
    \/ ChunkTranslated
    \/ TranslateTextRejects
    \/ TranslationReturned

SpecTranslate == TranslateInit /\ [][TranslateNext]_vars

---------------------------------------------------------------------------
(* SpecFile: transcribeLargeAudio through the File API                     *)
(*                                                                         *)
(* One call per behaviour.  The file service is the environment: the       *)
(* upload, every files.get and generateContent resolve or reject, and the  *)
(* state a response carries is any of FileStates.                          *)

\* file.size < 20 * 1024 * 1024: below this the file is sent inline
INLINE_LIMIT_BYTES == 20 * 1024 * 1024

FileSizes ==
    { 0, INLINE_LIMIT_BYTES - 1, INLINE_LIMIT_BYTES, INLINE_LIMIT_BYTES + 1 }

\* file.state in a response of the file service
FileStates == {"PROCESSING", "ACTIVE", "FAILED"}

FileInit ==
    /\ fpc = "idle"
    /\ fileSize \in FileSizes
    /\ clientKey \in BOOLEAN
    /\ fileState = "none"
    /\ reported = <<>>
    /\ generated = <<>>
    /\ fresult = Pending
    /\ WIdle
    /\ TIdle
    /\ SIdle
    /\ AIdle
    /\ LIdle
    /\ DIdle

\* getAiClient throws before the try block: the promise rejects with its error
FileCallNoKey ==
    /\ fpc = "idle"
    /\ ~clientKey
    /\ fpc' = "rejected"
    /\ fresult' = Rejected("API Key is missing. Please check your environment configuration.")
    /\ UNCHANGED <<fileSize, clientKey, fileState, reported, generated,
                   wvars, tvars, svars, avars, lvars, dvars>>

\* a file under the limit: transcribeAudio sends it inline
FileCallInline ==
    /\ fpc = "idle"
    /\ clientKey
    /\ fileSize < INLINE_LIMIT_BYTES
    /\ generated' = Append(generated, [part |-> "inlineData"])
    /\ fpc' = "inline"
    /\ UNCHANGED <<fileSize, clientKey, fileState, reported, fresult,
                   wvars, tvars, svars, avars, lvars, dvars>>

\* transcribeAudio returns the trimmed text
InlineResolves ==
    /\ fpc = "inline"
    /\ \E raw \in RawTexts : fresult' = Resolved(Trim(raw))
    /\ fpc' = "resolved"
    /\ UNCHANGED <<fileSize, clientKey, fileState, reported, generated,
                   wvars, tvars, svars, avars, lvars, dvars>>

\* transcribeAudio throws its own error, outside the try block
InlineRejects ==
    /\ fpc = "inline"
    /\ fresult' = Rejected("Failed to transcribe audio.")
    /\ fpc' = "rejected"
    /\ UNCHANGED <<fileSize, clientKey, fileState, reported, generated,
                   wvars, tvars, svars, avars, lvars, dvars>>

\* a file of 20 MB or more: ai.files.upload is called
FileCallUpload ==
    /\ fpc = "idle"
    /\ clientKey
    /\ ~(fileSize < INLINE_LIMIT_BYTES)
    /\ fpc' = "uploading"
    /\ UNCHANGED <<fileSize, clientKey, fileState, reported, generated,
                   fresult, wvars, tvars, svars, avars, lvars, dvars>>

\* the catch block: every error leaves as the same new Error
FileCatch ==
    /\ fpc' = "rejected"
    /\ fresult' = Rejected("Failed to process large audio file.")

\* while (fileState === 'PROCESSING')
KeepsPolling(state) == state = "PROCESSING"

\* the loop condition is evaluated for state: the timer is awaited, or the
\* loop is left and generateContent is called with the file's URI
AfterState(state) ==
    IF KeepsPolling(state)
    THEN /\ fpc' = "sleeping"
         /\ UNCHANGED generated
    ELSE /\ fpc' = "generating"
         /\ generated' = Append(generated, [part |-> "fileData", state |-> state])

\* the upload returns with the file's state
UploadResolves ==
    /\ fpc = "uploading"
    /\ \E state \in FileStates :
          /\ fileState' = state
          /\ reported' = Append(reported, state)
          /\ AfterState(state)
    /\ UNCHANGED <<fileSize, clientKey, fresult, wvars, tvars, svars, avars,
                   lvars, dvars>>

UploadRejects ==
    /\ fpc = "uploading"
    /\ FileCatch
    /\ UNCHANGED <<fileSize, clientKey, fileState, reported, generated,
                   wvars, tvars, svars, avars, lvars, dvars>>

\* the five seconds have passed: ai.files.get is called
TimerFires ==
    /\ fpc = "sleeping"
    /\ fpc' = "getting"
    /\ UNCHANGED <<fileSize, clientKey, fileState, reported, generated,
                   fresult, wvars, tvars, svars, avars, lvars, dvars>>

\* files.get returns FAILED and the loop throws on it
ThrowsOnFailed(state) == state = "FAILED"

\* files.get returns: the state is stored, FAILED throws, and the loop
\* condition is evaluated again (the service answers PROCESSING to at
\* most MaxPolls polls)
GetResolves ==
    /\ fpc = "getting"
    /\ \E state \in FileStates :
          /\ Len(reported) > MaxPolls => state # "PROCESSING"
          /\ fileState' = state
          /\ reported' = Append(reported, state)
          /\ IF ThrowsOnFailed(state)
             THEN FileCatch /\ UNCHANGED generated
             ELSE AfterState(state) /\ UNCHANGED fresult
    /\ UNCHANGED <<fileSize, clientKey, wvars, tvars, svars, avars,
                   lvars, dvars>>

GetRejects ==
    /\ fpc = "getting"
    /\ FileCatch
    /\ UNCHANGED <<fileSize, clientKey, fileState, reported, generated,
                   wvars, tvars, svars, avars, lvars, dvars>>

\* generateContent returns: response.text?.trim() || ""
GenerateResolves ==
    /\ fpc = "generating"
    /\ \E raw \in RawTexts : fresult' = Resolved(Trim(raw))
    /\ fpc' = "resolved"
    /\ UNCHANGED <<fileSize, clientKey, fileState, reported, generated,
                   wvars, tvars, svars, avars, lvars, dvars>>

GenerateRejects ==
    /\ fpc = "generating"
    /\ FileCatch
    /\ UNCHANGED <<fileSize, clientKey, fileState, reported, generated,
                   wvars, tvars, svars, avars, lvars, dvars>>

FileNext ==
    \/ FileCallNoKey
    \/ FileCallInline
    \/ InlineResolves
    \/ InlineRejects
    \/ FileCallUpload
    \/ UploadResolves
    \/ UploadRejects
    \/ TimerFires
    \/ GetResolves
    \/ GetRejects
    \/ GenerateResolves
    \/ GenerateRejects

SpecFile == FileInit /\ [][FileNext]_vars

---------------------------------------------------------------------------
(* Properties of encodeWAV (SpecWav) *)

Encoded == wpc \in {"encoded", "decoded"}

\* the int16 stored for sample i (1-based), read back little-endian
StoredInt16(i) == getInt16(wav, WAV_HEADER_BYTES + 2 * (i - 1))

\* the sample after clamping to [-1, 1]
ClampedSample(i) ==
    IF samples[i] > SampleDen THEN SampleDen
    ELSE IF samples[i] < -SampleDen THEN -SampleDen ELSE samples[i]

\* numerator over SampleDen of s * 32768 (s < 0) or s * 32767 (s >= 0)
ScaledSample(i) ==
    IF ClampedSample(i) < 0 THEN ClampedSample(i) * INT16_SCALE
    ELSE ClampedSample(i) * INT16_MAX

\* v is the scaled sample with its fractional part discarded
IsTruncationOf(v, i) ==
    IF ScaledSample(i) >= 0
    THEN v * SampleDen <= ScaledSample(i) /\ ScaledSample(i) - v * SampleDen < SampleDen
    ELSE v * SampleDen >= ScaledSample(i) /\ v * SampleDen - ScaledSample(i) < SampleDen

\* v is an integer nearest to the scaled sample
IsNearestTo(v, i) == 2 * Abs(v * SampleDen - ScaledSample(i)) <= SampleDen

\* C1: for every sample array of length N (N = 0 included) and every sample
\* rate the produced buffer has 44 + 2N bytes, the field at offset 40 is 2N
\* and the field at offset 4 is 36 + 2N.
C1_HeaderLengths ==
    Encoded =>
        /\ Len(wav) = 44 + 2 * Len(samples)
        /\ getUint32(wav, 40) = 2 * Len(samples)
        /\ getUint32(wav, 4) = 36 + 2 * Len(samples)

C1_Witness == wpc = "encoded" /\ Len(samples) = 2 /\ Len(wav) = 48

C8_HeaderLayout ==
    Encoded =>
        /\ SubSeq(wav, 1, 4) = <<82, 73, 70, 70>>
        /\ SubSeq(wav, 9, 12) = <<87, 65, 86, 69>>
        /\ SubSeq(wav, 13, 16) = <<102, 109, 116, 32>>
        /\ getUint32(wav, 16) = 16
        /\ getUint16(wav, 20) = 1
        /\ getUint16(wav, 22) = 1
        /\ getUint32(wav, 24) = sampleRate
        /\ getUint32(wav, 28) = sampleRate * 2
        /\ getUint16(wav, 32) = 2
        /\ getUint16(wav, 34) = 16
        /\ SubSeq(wav, 37, 40) = <<100, 97, 116, 97>>
        /\ \A i \in 1..Len(samples) :
              LET lo == wav[44 + 2 * (i - 1) + 1]
                  hi == wav[44 + 2 * (i - 1) + 2]
                  v  == IF hi >= 128 THEN lo + 256 * hi - 65536 ELSE lo + 256 * hi
              IN  IsTruncationOf(v, i)

\* two different samples at the speech sample rate, so that order and byte
\* order both show
C8_Witness ==
    /\ wpc = "encoded"
    /\ sampleRate = TTS_SAMPLE_RATE
    /\ Len(samples) = 2
    /\ StoredInt16(1) > 255
    /\ StoredInt16(2) < 0

\* C9: every sample is clamped before quantization: the stored integer is in
\* [-32768, 32767] and has not wrapped around (it never has the opposite sign
\* of the sample); an input >= 1 is stored as 32767, an input <= -1 as -32768.
C9_Clamped ==
    Encoded =>
        \A i \in 1..Len(samples) :
            /\ StoredInt16(i) \in (-INT16_SCALE)..INT16_MAX
            /\ samples[i] >= 0 => StoredInt16(i) >= 0
            /\ samples[i] <= 0 => StoredInt16(i) <= 0
            /\ samples[i] >= SampleDen => StoredInt16(i) = INT16_MAX
            /\ samples[i] <= -SampleDen => StoredInt16(i) = -INT16_SCALE

\* one sample above 1 and one below -1 have been encoded
C9_Witness ==
    /\ wpc = "encoded"
    /\ \E i, j \in 1..Len(samples) :
          /\ samples[i] > SampleDen /\ StoredInt16(i) = INT16_MAX
          /\ samples[j] < -SampleDen /\ StoredInt16(j) = -INT16_SCALE

---------------------------------------------------------------------------
(* Properties of transcribeLargeAudio (Spec) *)

\* M * rate: the samples of a full chunk
ChunkSamples == CHUNK_DURATION_SEC * SAMPLE_RATE

\* ceil(D / M) for a buffer of length samples
ExpectedChunks(length) == (length + ChunkSamples - 1) \div ChunkSamples

\* t_1 + " " + t_2 + " " + ... + " " + t_N
RECURSIVE JoinWithSpaces(_)
JoinWithSpaces(ts) ==
    IF ts = <<>> THEN <<>>
    ELSE IF Len(ts) = 1 THEN ts[1]
    ELSE LET half == Len(ts) \div 2
         IN  JoinWithSpaces(SubSeq(ts, 1, half)) \o <<" ">>
                 \o JoinWithSpaces(SubSeq(ts, half + 1, Len(ts)))

\* " " + t_1 + " " + t_2 + ...: what the accumulator holds after ts
RECURSIVE Accumulated(_)
Accumulated(ts) ==
    IF ts = <<>> THEN <<>>
    ELSE IF Len(ts) = 1 THEN <<" ">> \o ts[1]
    ELSE LET half == Len(ts) \div 2
         IN  Accumulated(SubSeq(ts, 1, half))
                 \o Accumulated(SubSeq(ts, half + 1, Len(ts)))

\* C4 as stated: when the run has gone through all chunks, their sample
\* ranges [startSample, endSample) are contiguous and disjoint, start at 0
\* and end at the length of the buffer, and there are ceil(D / M) of them
\* (1 when 0 < D <= M, none when D = 0).
C4_ChunksCoverBuffer ==
    pc = "resolved" =>
        /\ Len(requests) = ExpectedChunks(pcmLength)
        /\ (pcmLength > 0 /\ pcmLength <= ChunkSamples) => Len(requests) = 1
        /\ pcmLength = 0 => Len(requests) = 0
        /\ \A i \in 1..Len(requests) :
              /\ requests[i].startSample < requests[i].endSample
              /\ requests[i].startSample
                    = (IF i = 1 THEN 0 ELSE requests[i - 1].endSample)
        /\ Len(requests) > 0 => requests[Len(requests)].endSample = pcmLength

\* C5: a successful run over N chunks returns trim(t_1 + " " + ... + " " +
\* t_N); at every point the accumulator holds the responses of the completed
\* requests and nothing else, in chunk order, each one once.
C5_TranscriptAssembly ==
    /\ fullTranscript = Accumulated(responses)
    /\ Len(responses) + Len(inFlight) <= Len(requests)
    /\ pc = "resolved" =>
          /\ result = Resolved(Trim(JoinWithSpaces(responses)))
          /\ Len(responses) = ExpectedChunks(pcmLength)

\* three chunks, the first two answered with different non-empty texts
C5_Witness ==
    /\ pc = "resolved"
    /\ Len(responses) = 3
    /\ responses[1] # <<>>
    /\ responses[2] # <<>>
    /\ responses[1] # responses[2]

\* C6: the requests sent are the chunks in increasing time order, one per
\* chunk; a request is sent only when every earlier one has been answered,
\* so at most one is in flight.
C6_SequentialRequests ==
    /\ Len(inFlight) <= 1
    /\ pc # "rejected" => Len(requests) = Len(responses) + Len(inFlight)
    /\ Len(requests) <= ExpectedChunks(pcmLength)
    /\ \A i \in 1..Len(requests) :
          requests[i].startSample = (i - 1) * ChunkSamples
    /\ pc = "resolved" => Len(requests) = ExpectedChunks(pcmLength)

\* the third request is in flight, the first two are answered
C6_Witness ==
    /\ pc = "awaiting"
    /\ Len(requests) = 3
    /\ Len(responses) = 2
    /\ Len(inFlight) = 1

\* C7: when the request of chunk k fails the run is rejected with an error:
\* the failed request is the last one sent (no retry, no request for a
\* later chunk) and the result carries no transcript.
C7_FailureAborts ==
    pc = "rejected" =>
        /\ result.kind = "rejected"
        /\ DOMAIN result = {"kind", "message"}
        /\ inFlight = <<>>
        /\ Len(requests) <= Len(responses) + 1
        /\ \A i, j \in 1..Len(requests) :
              i # j => requests[i].startSample # requests[j].startSample

\* the third request failed after two non-empty transcripts were obtained
C7_Witness ==
    /\ pc = "rejected"
    /\ Len(requests) = 3
    /\ Len(responses) = 2
    /\ responses[1] # <<>>
    /\ responses[2] # <<>>
    /\ fullTranscript # <<>>

\* C10 as stated: chunk i (0-based) starts at sample i * M * rate, every
\* chunk but the last holds exactly M * rate samples, the last one at least
\* 1 and at most M * rate; 700 s give chunks of 300, 300 and 100 s.
C10_ChunkSizes ==
    /\ \A i \in 1..Len(requests) :
          /\ requests[i].startSample = (i - 1) * ChunkSamples
          /\ i < ExpectedChunks(pcmLength) => requests[i].samples = ChunkSamples
          /\ requests[i].samples >= 1
          /\ requests[i].samples <= ChunkSamples
    /\ (pc = "resolved" /\ pcmLength = Seconds(700)) =>
          /\ Len(requests) = 3
          /\ requests[1].samples = Seconds(300)
          /\ requests[2].samples = Seconds(300)
          /\ requests[3].samples = Seconds(100)

\* C11: for a decoded buffer of zero length the loop body never runs: no
\* transcription request is issued, the call does not reject, and it
\* resolves with the empty string.
C11_EmptyBuffer ==
    (file = 0 /\ pc \notin {"idle", "decoding"}) =>
        /\ requests = <<>>
        /\ inFlight = <<>>
        /\ pc \in {"loop", "resolved"}
        /\ result.kind # "rejected"
        /\ pc = "resolved" => result = Resolved(<<>>)

C11_Witness ==
    /\ file = 0
    /\ pc = "resolved"
    /\ result = Resolved(<<>>)
    /\ requests = <<>>
    /\ ~ctxOpen

\* C12: when decodeAudioData rejects, transcribeLargeAudio rejects; no
\* request is issued (so the undecoded bytes are not sent as a fallback)
\* and no transcript is returned.
C12_DecodeFailureRejects ==
    (file = Corrupt /\ pc \notin {"idle", "decoding"}) =>
        /\ pc = "rejected"
        /\ result = Rejected("Failed to process large audio file.")
        /\ requests = <<>>
        /\ inFlight = <<>>
        /\ responses = <<>>
        /\ fullTranscript = <<>>

C12_Witness ==
    /\ file = Corrupt
    /\ pc = "rejected"
    /\ result.kind = "rejected"
    /\ requests = <<>>

---------------------------------------------------------------------------
(* Properties of the services (SpecServices) *)

\* the stored user item, parsed
StoredUser == JSON_parse(getItem(storage, USER_STORAGE_KEY))

\* the last call was login and the promise resolved with the logged-in user
\* that is now stored
LoginSucceeded ==
    /\ returned.kind = "returned"
    /\ returned.value.isLoggedIn
    /\ returned.value.email = call.email
    /\ StoredUser = returned.value

\* C14 as stated: login succeeds for every email and every password.
C14_AcceptsAnyCredentials == call.op = "login" => LoginSucceeded

\* C14: for every non-empty email and every non-empty password login
\* succeeds, stores a user with isLoggedIn = true and returns it; with an
\* empty email or an empty password it throws and stores nothing.
C14_AcceptsNonEmptyCredentials ==
    call.op = "login" =>
        IF call.email # "" /\ call.password # ""
        THEN LoginSucceeded
        ELSE /\ returned = Thrown("Email and password are required")
             /\ storage = call.before

C14_Witness ==
    /\ call.op = "login"
    /\ call.email = "ana"
    /\ call.password = "pw"
    /\ returned.kind = "returned"
    /\ StoredUser.isLoggedIn

\* C15: getSubscription on empty storage stores and returns the default
\* state, and after addUsageMinutes, upgradePlan or activateDeveloperPlan
\* the next getSubscription returns exactly what that call returned.
C15_Persistence ==
    /\ (call.op = "getSubscription" /\ getItem(call.before, STORAGE_KEY) = NoItem)
          => /\ returned = Returned(DEFAULT_STATE)
             /\ JSON_parse(getItem(storage, STORAGE_KEY)) = DEFAULT_STATE
    /\ call.op \in {"addUsageMinutes", "upgradePlan", "activateDeveloperPlan"}
          => getSubscription(storage).value = returned.value

\* what upgradePlan(tier) is to make of the plan: the limit and the
\* translation right of each tier
PlanOf(tier) ==
    IF tier = "basic"
    THEN [maxMinutes |-> BASIC_MAX_MINUTES, canTranslate |-> FALSE]
    ELSE IF tier = "advanced"
    THEN [maxMinutes |-> ADVANCED_MAX_MINUTES, canTranslate |-> TRUE]
    ELSE [maxMinutes |-> FREE_MAX_MINUTES, canTranslate |-> FALSE]

\* C25: upgradePlan(tier) returns and stores the subscription it found with
\* tier, maxMinutes and canTranslate set for the tier (basic: 120, false;
\* advanced: 1000, true; free: 30, false) and with minutesUsed as it was,
\* for every tier.
C25_UpgradeFrame ==
    call.op = "upgradePlan" =>
        LET before == getSubscription(call.before).value IN
        /\ returned.value.tier = call.tier
        /\ returned.value.maxMinutes = PlanOf(call.tier).maxMinutes
        /\ returned.value.canTranslate = PlanOf(call.tier).canTranslate
        /\ returned.value.minutesUsed = before.minutesUsed
        /\ DOMAIN returned.value = DOMAIN before

---------------------------------------------------------------------------
(* Properties of the App component (SpecApp) *)

\* the subscription item in localStorage, parsed
StoredSubscription == JSON_parse(getItem(storage, STORAGE_KEY))

\* C13: when transcribeLargeAudio rejects during handleProcess the status
\* becomes ERROR with a non-empty error message, and neither that step nor
\* the start of the run changes the usage, the result or the history.
C13_RejectionReachesUI ==
    [][ /\ TranscribeRejects =>
              /\ status' = "ERROR"
              /\ error' \notin {NoError, ""}
              /\ UNCHANGED <<subscription, storage, appResult, history>>
        /\ HandleProcessStart =>
              UNCHANGED <<subscription, storage, appResult, history>> ]_vars

C13_Witness ==
    /\ status = "ERROR"
    /\ error = "Failed to process large audio file."
    /\ nruns = 1
    /\ runs = <<>>
    /\ history = <<>>
    /\ appResult = NoResult
    /\ StoredSubscription = subscription

\* minutesUsed + seconds / 60 <= maxMinutes, or maxMinutes > 1000000
LimitHolds(sub, seconds) ==
    \/ sub.maxMinutes > UNLIMITED_ABOVE
    \/ Plus(sub.minutesUsed, seconds) <= SECONDS_PER_MINUTE * sub.maxMinutes

\* audioData.duration, or 60 seconds when it is unknown
EstimatedSeconds ==
    IF audioData.duration = 0 THEN UNKNOWN_DURATION_SEC ELSE audioData.duration

\* C16: a transcription is started only when the limit holds for the
\* estimated duration; a handleProcess call for which it does not hold opens
\* the pricing modal and leaves the runs, the status and the subscription
\* as they were.
C16_LimitGate ==
    [][ /\ nruns' > nruns => LimitHolds(subscription, EstimatedSeconds)
        /\ (HandleProcess /\ ~LimitHolds(subscription, EstimatedSeconds)) =>
              /\ showPricing'
              /\ UNCHANGED <<runs, nruns, status, subscription, storage>> ]_vars

C16_Witness ==
    /\ showPricing
    /\ audioData # NoAudio
    /\ ~LimitHolds(subscription, EstimatedSeconds)
    /\ status = "IDLE"
    /\ runs = <<>>
    /\ nruns = 0

\* C17: a subscription that is not the developer plan has
\* minutesUsed <= maxMinutes, in the component and in localStorage.
C17_UsageWithinPlan ==
    \A sub \in {subscription, StoredSubscription} :
        sub.maxMinutes <= UNLIMITED_ABOVE =>
            ToNumber(sub.minutesUsed) <= SECONDS_PER_MINUTE * sub.maxMinutes

\* C18: the AudioMetadata of a stopped recording carries the seconds the
\* recording timer counted.
C18_RecordedDuration ==
    (recorder = "inactive" /\ audioData # NoAudio
        /\ audioData.mimeType = "audio/webm")
    => audioData.duration = recordingDuration

\* a step of a handleProcess run that is in flight: one of its awaits
\* returns
RunContinues == runs' # runs /\ nruns' = nruns

\* C22: once resetApp has discarded the UI state while a handleProcess run
\* is in flight, the return of that run's remote calls changes nothing:
\* the status stays IDLE, the result stays cleared, and neither usage
\* minutes nor a history record are added.
C22_DiscardedRunInert ==
    [][ (runs # <<>> /\ status = "IDLE" /\ appResult = NoResult /\ RunContinues)
            => /\ status' = "IDLE"
               /\ appResult' = NoResult
               /\ UNCHANGED <<subscription, storage, history>> ]_vars

\* C23: at most one handleProcess pipeline is in flight at any time.
C23_OnePipeline == Len(runs) <= 1

\* the i-th run in flight issues its translation request in this step
TranslationIssued(i) ==
    /\ Len(runs') = Len(runs)
    /\ runs[i].phase = "title"
    /\ runs'[i].phase = "translating"

\* C24 as stated: a translation request is issued only when the transcript
\* is not empty, the subscription has canTranslate = true and the selected
\* target language is not "en".
C24_TranslationGate ==
    [][ \A i \in 1..Len(runs) :
            TranslationIssued(i) =>
                /\ runs[i].transcript # ""
                /\ subscription.canTranslate
                /\ targetLang # "en" ]_vars

\* C24: a translation request is issued only when the transcript is not
\* empty and, when handleProcess was called, the subscription had
\* canTranslate = true and the selected target language was not "en"; a
\* run keeps what it saw of both when it was called.
C24_TranslationGateAtCall ==
    [][ /\ HandleProcessStart =>
              /\ runs'[Len(runs')].canTranslate = subscription.canTranslate
              /\ runs'[Len(runs')].targetLang = targetLang
        /\ \A i \in 1..Len(runs) :
              /\ TranslationIssued(i) =>
                    /\ runs[i].transcript # ""
                    /\ runs[i].canTranslate
                    /\ runs[i].targetLang # "en"
              /\ Len(runs') = Len(runs) =>
                    /\ runs'[i].canTranslate = runs[i].canTranslate
                    /\ runs'[i].targetLang = runs[i].targetLang ]_vars

\* a translation is awaited for a run started on a plan with the right
C24_Witness ==
    /\ status = "TRANSLATING"
    /\ subscription.canTranslate
    /\ targetLang = "pt"
    /\ Len(runs) = 1
    /\ runs[1].phase = "translating"
    /\ runs[1].transcript = "text"

---------------------------------------------------------------------------
(* Properties of translateLongText (SpecTranslate) *)

\* the input is longer than CHUNK_SIZE characters
IsLongText == StrLength(longText) > CHUNK_SIZE

\* C19: for a text longer than 8000 characters every chunk passed to
\* translateText has at most CHUNK_SIZE characters.
C19_ChunkSize ==
    IsLongText => \A i \in 1..Len(sent) : StrLength(sent[i]) <= CHUNK_SIZE

\* C20: for a text longer than 8000 characters the chunks, joined in order
\* with "\n\n", are the input text.
C20_ChunksRejoin ==
    (IsLongText /\ lpc \in {"sending", "awaiting", "resolved", "rejected"})
        => Join(chunks) = longText

---------------------------------------------------------------------------
(* The AudioContext of transcribeLargeAudio (Spec) *)

\* C27: whenever transcribeLargeAudio has finished, by returning a
\* transcript or by rejecting, the AudioContext it created has been closed.
C27_ContextClosed ==
    pc \in {"resolved", "rejected"} => ~ctxOpen

---------------------------------------------------------------------------
(* Properties of handleDownloadAudio (SpecDownload) *)

\* the i-th sample of the data chunk of the downloaded file
DownloadedSample(i) == getInt16(download, WAV_HEADER_BYTES + 2 * (i - 1))

\* C26: every sample written to the downloaded WAV equals the int16 value
\* of the speech service it was converted from.
C26_DownloadIdentity ==
    dpc = "written" =>
        \A i \in 1..Len(dataInt16) : DownloadedSample(i) = dataInt16[i]

---------------------------------------------------------------------------
(* Properties of the File-API transcribeLargeAudio (SpecFile) *)

\* the transcription requests that reference the uploaded file
FileRequests == { i \in 1..Len(generated) : generated[i].part = "fileData" }

\* the file service has reported the state FAILED, in the upload response
\* or in a poll response
ReportedFailed == \E i \in 1..Len(reported) : reported[i] = "FAILED"

\* C21: a transcription request referencing the uploaded file is issued
\* only when the file's state is neither PROCESSING nor FAILED; once the
\* state FAILED has been reported, by the upload or by a poll, the operation
\* has rejected and has issued no such request.
C21_FileGate ==
    /\ \A i \in FileRequests : generated[i].state \notin {"PROCESSING", "FAILED"}
    /\ ReportedFailed => (fpc = "rejected" /\ FileRequests = {})

=============================================================================
